---- MODULE Spec2Model ----
(***************************************************************************)
(* Model of storages/management/commands/collectstatic.py: the Command     *)
(* that overrides staticfiles' collectstatic so that delete_file decides   *)
(* by comparing the S3 etag with the MD5 of the local file.                *)
(*                                                                         *)
(* The collaborators (the remote storage, the source storage, the parent   *)
(* class's delete_file, the logger) are modelled by their observable       *)
(* behaviour: every call may answer or raise, chosen by the environment.   *)
(***************************************************************************)
EXTENDS Integers, Sequences, FiniteSets, TLC

VARIABLES
    flag,         \* AWS_FAST_COLLECTSTATIC, read once at import (line 7)
    pc,           \* "new" before __init__, "ready" after it, "aborted" once
                  \* an exception has escaped delete_file
    preload,      \* storage.preload_metadata: "absent", "false" or "true"
    preload0,     \* preload as __init__ found it
    attrs,        \* which of _normalize_name, _clean_name, location the
                  \* storage has
    objects,      \* the prefixed paths storage.exists answers True for
    objects0,     \* objects before the first delete_file call
    entries,      \* storage.entries: the etag held under each key, or None
    entries0,     \* entries before the first delete_file call
    notices,      \* the messages given to self.log so far
    openStreams,  \* the local paths with a stream that get_local_hash opened
                  \* and that is still open
    decisions,    \* the number of delete_file calls made
    last          \* the record of the last delete_file call

vars == <<flag, pc, preload, preload0, attrs, objects, objects0,
          entries, entries0, notices, openStreams, decisions, last>>

----------------------------------------------------------------------------
(* Bounds of the model *)

\* longest etag string held by the metadata index
MaxEtagLen == 4
\* longest local file, in bytes
MaxFileLen == 1
\* number of delete_file calls of one collectstatic pass
MaxDecisions == 2

----------------------------------------------------------------------------
(* Values *)

\* the quotation mark S3 wraps an etag in
Quote == "\""
\* the characters an etag is made of
EtagChars == {"a", Quote}
\* the candidate files: each is handed to delete_file as path and prefixed_path
Files == {"f1"}
\* the bytes of a local file
Bytes == {0, 1}

SeqsUpTo(S, n) == UNION {[1..k -> S] : k \in 0..n}

Etags == SeqsUpTo(EtagChars, MaxEtagLen)
Contents == SeqsUpTo(Bytes, MaxFileLen)

\* what storage.entries.get(key) answers for a key the index does not hold
None == <<"None">>

\* the keys of storage.entries: a location prefix and a name
Keys == {"loc", ""} \X Files

\* block_size=2**20 of get_local_hash, scaled to the files of the model
BlockSize == 1

----------------------------------------------------------------------------
(* Pure helpers *)

IsNotQuote(c) == c # Quote

\* str.replace('"', ''): every quotation mark of the string is dropped
Replace(etag) == SelectSeq(etag, IsNotQuote)

\* hashlib.md5(), scaled down: the accumulator keeps the parity of the byte
\* sum and of the length, so that update(a); update(b) equals update(a + b)
Md5New == [sum |-> 0, len |-> 0]

RECURSIVE Md5Update(_, _)
Md5Update(md5, chunk) ==
    IF chunk = <<>> THEN md5
    ELSE Md5Update([sum |-> (md5.sum + Head(chunk)) % 2,
                    len |-> (md5.len + 1) % 2], Tail(chunk))

\* the digits of the hex digest: two, a and b, stand for sixteen
HexDigit(n) == IF n = 0 THEN "a" ELSE "b"

Md5HexDigest(md5) == <<HexDigit(md5.sum), HexDigit(md5.len)>>

Min(a, b) == IF a < b THEN a ELSE b

\* content.read(block_size) at offset pos: the next chunk, b'' at the end
ReadChunk(content, pos) == SubSeq(content, pos + 1, Min(pos + BlockSize, Len(content)))

----------------------------------------------------------------------------
(* The environment of one delete_file call *)

\* the call of the decision that raises, if it is reached
FailPoints == {"none", "exists", "path", "index", "open", "read1", "read2"}

\* what the parent's (Django's) delete_file does when it is called: it
\* raises, or returns False (target not older than the source), or deletes
\* the target and returns True, or returns True leaving the store alone
\* (dry run, or no target)
ParentOutcomes == {"raise", "skip", "delete", "keep"}

----------------------------------------------------------------------------
(* The storage collaborator *)

\* hasattr(storage, name)
HasAttr(name) == name \in attrs

\* storage._normalize_name(name) of S3BotoStorage: the name under the location
NormalizeName(p) == <<"loc", p>>

\* storage._clean_name(name) of S3Storage: the cleaned name, no location
CleanName(p) == <<"", p>>

\* os.path.join(self.storage.location, prefixed_path)
PathJoin(p) == <<"loc", p>>

\* storage.exists(prefixed_path)
Exists(p) == p \in objects

----------------------------------------------------------------------------
(* Command.__init__ *)

\* not getattr(self.storage, 'preload_metadata', True): an attribute that is
\* not set reads as True, a false value as False
PreloadIsOff(pl) == pl = "false"

\* the condition with getattr(self.storage, 'preload_metadata', False)
ShouldForcePreloadNoDefault(fl, pl) == fl /\ pl # "true"

\* the condition without AWS_FAST_COLLECTSTATIC
ShouldForcePreloadNoFlag(fl, pl) == PreloadIsOff(pl)

\* the condition of the if statement of __init__
ShouldForcePreload(fl, pl) == fl /\ PreloadIsOff(pl)

----------------------------------------------------------------------------
(* Command.get_entry_path *)

\* get_entry_path whose else branch does not log and does not join the
\* location
GetEntryPathSilent(p, failAt) ==
    IF HasAttr("_normalize_name")
    THEN [ok |-> failAt # "path", path |-> NormalizeName(p), logs |-> {},
          calls |-> <<"_normalize_name">>]
    ELSE IF HasAttr("_clean_name")
    THEN [ok |-> failAt # "path", path |-> CleanName(p), logs |-> {},
          calls |-> <<"_clean_name">>]
    ELSE [ok |-> HasAttr("location"), path |-> CleanName(p), logs |-> {},
          calls |-> <<"location">>]

\* the entry path of prefixed_path p: ok is FALSE when the call raises (the
\* storage's routine raises, or the storage has no location to join with)
get_entry_path(p, failAt) ==
    IF HasAttr("_normalize_name")
    THEN [ok |-> failAt # "path", path |-> NormalizeName(p), logs |-> {},
          calls |-> <<"_normalize_name">>]
    ELSE IF HasAttr("_clean_name")
    THEN [ok |-> failAt # "path", path |-> CleanName(p), logs |-> {},
          calls |-> <<"_clean_name">>]
    ELSE [ok |-> HasAttr("location"), path |-> PathJoin(p), logs |-> {"guess"},
          calls |-> <<"log", "location">>]

----------------------------------------------------------------------------
(* Command.get_remote_hash *)

\* lines 73-75 for the entry path ep that get_entry_path answered: ok is
\* FALSE when the call raises: in get_entry_path, on reading
\* storage.entries, or on None.etag for a key the index does not hold
LookupEtag(ep, failAt) ==
    IF ~ep.ok
    THEN [ok |-> FALSE, failed |-> "path", etag |-> None, hash |-> <<>>,
          path |-> None, logs |-> ep.logs, calls |-> ep.calls]
    ELSE IF failAt = "index"
    THEN [ok |-> FALSE, failed |-> "index", etag |-> None, hash |-> <<>>,
          path |-> ep.path, logs |-> ep.logs,
          calls |-> ep.calls \o <<"entries">>]
    ELSE IF entries[ep.path] = None
    THEN [ok |-> FALSE, failed |-> "etag", etag |-> None, hash |-> <<>>,
          path |-> ep.path, logs |-> ep.logs,
          calls |-> ep.calls \o <<"entries">>]
    ELSE [ok |-> TRUE, failed |-> "none", etag |-> entries[ep.path],
          hash |-> Replace(entries[ep.path]),
          path |-> ep.path, logs |-> ep.logs,
          calls |-> ep.calls \o <<"entries">>]

get_remote_hash(p, failAt) == LookupEtag(get_entry_path(p, failAt), failAt)

----------------------------------------------------------------------------
(* Command.get_local_hash *)

\* the for loop over iter(lambda: content.read(block_size), b''): n is the
\* number of the read about to be made
RECURSIVE ReadLoop(_, _, _, _, _)
ReadLoop(content, pos, md5, n, failAt) ==
    IF (n = 1 /\ failAt = "read1") \/ (n = 2 /\ failAt = "read2")
    THEN [ok |-> FALSE, hash |-> <<>>, reads |-> n]
    ELSE LET chunk == ReadChunk(content, pos) IN
         IF chunk = <<>>
         THEN [ok |-> TRUE, hash |-> Md5HexDigest(md5), reads |-> n]
         ELSE ReadLoop(content, pos + Len(chunk), Md5Update(md5, chunk),
                       n + 1, failAt)

\* what get_local_hash answers when the loop ended as r: no close() is
\* called on any path
HashOfReads(r) ==
    [ok |-> r.ok, failed |-> IF r.ok THEN "none" ELSE "read",
     hash |-> r.hash, opened |-> TRUE, closes |-> 0,
     calls |-> <<"open">> \o [i \in 1..r.reads |-> "read"]]

\* ok is FALSE when open or a read raises; opened tells whether
\* source_storage.open returned a stream; closes counts the close() calls
get_local_hash(content, failAt) ==
    IF failAt = "open"
    THEN [ok |-> FALSE, failed |-> "open", hash |-> <<>>, opened |-> FALSE,
          closes |-> 0, calls |-> <<"open">>]
    ELSE HashOfReads(ReadLoop(content, 0, Md5New, 1, failAt))

----------------------------------------------------------------------------
(* Command.delete_file *)

\* the record of one delete_file call: what it returned (or "raise"), the
\* collaborator calls it made, in order, and the values it saw
NoDecision ==
    [op |-> "none", file |-> "none", result |-> "none", deleted |-> FALSE, calls |-> <<>>,
     exists |-> "none", etag |-> None, remote |-> "none", remoteHash |-> <<>>,
     localSt |-> "none", localHash |-> <<>>, parent |-> "none", logs |-> {},
     opened |-> FALSE, closes |-> 0, failed |-> "none", entryPath |-> None]

\* super(Command, self).delete_file(path, prefixed_path, source_storage):
\* Django's timestamp policy.  It returns False for a target that is not
\* older than the source; otherwise it deletes the target
\* (self.storage.delete), unless in a dry run, and returns True.
ParentDeleteFile(o, f, parent) ==
    [o EXCEPT !.parent = parent,
              !.calls = o.calls \o <<"super.delete_file">>,
              !.result = CASE parent = "raise" -> "raise"
                           [] parent = "skip" -> "False"
                           [] OTHER -> "True",
              !.deleted = (parent = "delete" /\ Exists(f)),
              !.failed = IF parent = "raise" /\ o.failed = "none"
                         THEN "parent" ELSE o.failed]

\* an except clause that returns True
ExceptPublish(o, f, parent) == [o EXCEPT !.result = "True"]

\* an except clause that raises again
ExceptReraise(o, f, parent) == [o EXCEPT !.result = "raise"]

\* the except clause: let Django decide
ExceptFallback(o, f, parent) == ParentDeleteFile(o, f, parent)

\* remote_hash != local_hash
CompareHashesInverted(remote_hash, local_hash) == remote_hash # local_hash

\* remote_hash == local_hash
CompareHashes(remote_hash, local_hash) == remote_hash = local_hash

\* the hashes fetched whatever storage.exists answers
NeedsHashesAlways(existsAnswer) == TRUE

\* if self.storage.exists(prefixed_path): only then are the hashes fetched
NeedsHashes(existsAnswer) == existsAnswer

\* a final return True that first deletes the target, as the parent does
FallThroughDeleting(o, f) == [o EXCEPT !.result = "True", !.deleted = Exists(f)]

\* the final return True: nothing is deleted here
FallThrough(o, f) == [o EXCEPT !.result = "True"]

\* the else clause of the try statement
HashesObtained(o, f) ==
    IF CompareHashes(o.remoteHash, o.localHash)
    THEN [o EXCEPT !.result = "False", !.logs = o.logs \cup {"skip"},
                   !.calls = o.calls \o <<"log">>]
    ELSE FallThrough(o, f)

\* the call record o once get_remote_hash answered rh
WithRemoteHash(o, rh) ==
    [o EXCEPT !.calls = o.calls \o rh.calls, !.logs = rh.logs,
              !.etag = rh.etag, !.remoteHash = rh.hash,
              !.remote = IF rh.ok THEN "ok" ELSE "err",
              !.entryPath = rh.path, !.failed = rh.failed]

\* the call record o once get_local_hash answered lh
WithLocalHash(o, lh) ==
    [o EXCEPT !.calls = o.calls \o lh.calls, !.localHash = lh.hash,
              !.localSt = IF lh.ok THEN "ok" ELSE "err",
              !.opened = lh.opened, !.closes = lh.closes,
              !.failed = lh.failed]

\* the try statement after get_local_hash
AfterLocalHash(o, f, parent) ==
    IF o.localSt = "err" THEN ExceptFallback(o, f, parent)
    ELSE HashesObtained(o, f)

\* the try statement after get_remote_hash
AfterRemoteHash(o, f, content, failAt, parent) ==
    IF o.remote = "err" THEN ExceptFallback(o, f, parent)
    ELSE AfterLocalHash(WithLocalHash(o, get_local_hash(content, failAt)),
                        f, parent)

\* the try statement: get_remote_hash, then get_local_hash
TryHashes(o, f, content, failAt, parent) ==
    AfterRemoteHash(WithRemoteHash(o, get_remote_hash(f, failAt)),
                    f, content, failAt, parent)

\* delete_file once storage.exists answered
AfterExists(o, f, content, failAt, parent) ==
    IF NeedsHashes(Exists(f)) THEN TryHashes(o, f, content, failAt, parent)
    ELSE FallThrough(o, f)

\* the call record of a delete_file call for f
NewDecision(f) == [NoDecision EXCEPT !.op = "delete_file", !.file = f]

\* delete_file(path, prefixed_path, source_storage) for the file f, whose
\* local bytes are content
delete_file(f, content, failAt, parent) ==
    IF ~flag THEN ParentDeleteFile(NewDecision(f), f, parent)
    ELSE IF failAt = "exists"
    THEN [NewDecision(f) EXCEPT !.result = "raise", !.exists = "raise",
                                !.calls = <<"exists">>, !.failed = "exists"]
    ELSE AfterExists([NewDecision(f) EXCEPT
                         !.exists = IF Exists(f) THEN "yes" ELSE "no",
                         !.calls = <<"exists">>],
                     f, content, failAt, parent)

----------------------------------------------------------------------------
(* The state machine *)

\* the attributes among _normalize_name, _clean_name and location that the
\* storage has: an S3BotoStorage, an S3Storage with and without a location,
\* and an unknown storage with and without a location
Storages ==
    {{"_normalize_name", "_clean_name", "location"},
     {"_clean_name", "location"}, {"_clean_name"}, {"location"}, {}}

\* the key under which the storage's own listing files f: the name under
\* the storage's location, the bare name for a storage without a location
IndexKey(as, f) == IF "location" \in as THEN <<"loc", f>> ELSE <<"", f>>

\* the metadata indexes a storage with attributes as can hold: for each file
\* no entry, or an entry with some etag under the storage's key
Indexes(as) ==
    {idx \in [Keys -> Etags \cup {None}] :
        \A k \in Keys : k # IndexKey(as, k[2]) => idx[k] = None}

Init ==
    /\ flag \in BOOLEAN
    /\ pc = "new"
    /\ preload \in {"absent", "false", "true"}
    /\ preload0 = preload
    /\ attrs \in Storages
    /\ objects \in SUBSET Files
    /\ objects0 = objects
    /\ entries \in Indexes(attrs)
    /\ entries0 = entries
    /\ notices = {}
    /\ openStreams = {}
    /\ decisions = 0
    /\ last = NoDecision

\* Command.__init__
Construct ==
    /\ pc = "new"
    /\ pc' = "ready"
    /\ IF ShouldForcePreload(flag, preload)
       THEN /\ notices' = notices \cup {"force"}
            /\ preload' = "true"
       ELSE UNCHANGED <<notices, preload>>
    /\ UNCHANGED <<flag, preload0, attrs, objects, objects0, entries, entries0,
                   openStreams, decisions, last>>

\* what the parent can do for f: it skips or deletes only a target it finds
ParentChoices(f) == IF Exists(f) THEN ParentOutcomes ELSE {"raise", "keep"}

\* The environment of one call: the call that raises (if it is reached), the
\* bytes of the local file, and what the parent does.  Each is drawn only
\* where the call can observe it: with the setting off no call but the
\* parent's is made, and a call that raises before the first read returns
\* never sees the bytes.
FailChoices == IF flag THEN FailPoints ELSE {"none"}

ContentChoices(fail) ==
    IF flag /\ fail \in {"none", "read2"} THEN Contents ELSE {<<>>}

\* what delete_file can do for f in that environment: its outcome for each
\* thing the parent can do if the parent is called, one outcome otherwise
Outcomes(f, content, fail) ==
    LET keep == delete_file(f, content, fail, "keep") IN
    IF keep.parent = "none" THEN {keep}
    ELSE {keep} \cup {delete_file(f, content, fail, parent) :
                         parent \in ParentChoices(f) \ {"keep"}}

\* one call of delete_file by the collect loop; an exception that escapes it
\* ends the pass.  A stream the call opened and did not close stays open
\* unless the runtime finalizes it.
DeleteFile ==
    /\ pc = "ready"
    /\ decisions < MaxDecisions
    /\ \E f \in Files, fail \in FailChoices :
       \E content \in ContentChoices(fail) :
       \E o \in Outcomes(f, content, fail) :
       \E finalized \in (IF o.opened THEN BOOLEAN ELSE {FALSE}) :
          /\ last' = o
          /\ objects' = IF o.deleted THEN objects \ {f} ELSE objects
          /\ notices' = notices \cup o.logs
          /\ openStreams' = IF o.opened /\ o.closes = 0 /\ ~finalized
                            THEN openStreams \cup {f} ELSE openStreams
          /\ decisions' = decisions + 1
          /\ pc' = IF o.result = "raise" THEN "aborted" ELSE "ready"
    /\ UNCHANGED <<flag, preload, preload0, attrs, objects0, entries, entries0>>

Next == Construct \/ DeleteFile

Spec == Init /\ [][Next]_vars

----------------------------------------------------------------------------
(* Vocabulary of the properties *)

\* the last step was a delete_file call
Decided == last.op = "delete_file"

\* both hashes were returned to delete_file
BothObtained == last.remote = "ok" /\ last.localSt = "ok"

\* get_remote_hash or get_local_hash raised
HashError == last.remote = "err" \/ last.localSt = "err"

\* what delete_file returns when it returns the parent's answer
ParentResult(parent) ==
    CASE parent = "raise" -> "raise"
      [] parent = "skip" -> "False"
      [] OTHER -> "True"

RECURSIVE StripLeading(_)
StripLeading(s) ==
    IF s # <<>> /\ Head(s) = Quote THEN StripLeading(Tail(s)) ELSE s

RECURSIVE StripTrailing(_)
StripTrailing(s) ==
    IF s # <<>> /\ s[Len(s)] = Quote
    THEN StripTrailing(SubSeq(s, 1, Len(s) - 1)) ELSE s

\* a string with the quotation marks that wrap it removed
StripWrapping(s) == StripTrailing(StripLeading(s))

\* the storage offers neither _normalize_name nor _clean_name
UnknownStorage == ~HasAttr("_normalize_name") /\ ~HasAttr("_clean_name")

----------------------------------------------------------------------------
(* C1 *)

\* C1 as stated: with the setting on, delete_file returns False only if the
\* remote object exists, both hashes were obtained and they are equal.
C1_SkipOnlyOnEqualHashes ==
    (flag /\ Decided /\ last.result = "False")
        => /\ last.exists = "yes"
           /\ BothObtained
           /\ last.remoteHash = last.localHash

\* C1 amended: with the setting on, delete_file returns False only if the
\* remote object exists and either both hashes were obtained and are equal,
\* or a hash could not be obtained and the parent's delete_file, called in
\* the except clause, returned False.
C1_SkipOnlyOnEqualHashesOrParentSkip ==
    (flag /\ Decided /\ last.result = "False")
        => /\ last.exists = "yes"
           /\ \/ BothObtained /\ last.remoteHash = last.localHash
                 /\ last.parent = "none"
              \/ HashError /\ last.parent = "skip"

C1_Witness ==
    /\ flag /\ Decided /\ last.result = "False"
    /\ BothObtained /\ last.remoteHash = last.localHash

----------------------------------------------------------------------------
(* C2 *)

\* C2 as stated: with the setting on and the remote object present, a hash
\* lookup that raises makes delete_file return True.
C2_HashErrorPublishes ==
    (flag /\ Decided /\ last.exists = "yes" /\ HashError)
        => last.result = "True"

\* C2 amended: with the setting on and the remote object present, a hash
\* lookup that raises is caught and delete_file hands the decision to the
\* parent's delete_file: it returns what the parent returns (True or False)
\* and raises only what the parent raises.
C2_HashErrorDefersToParent ==
    (flag /\ Decided /\ last.exists = "yes" /\ HashError)
        => /\ last.parent # "none"
           /\ last.result = ParentResult(last.parent)

C2_Witness ==
    /\ flag /\ Decided /\ last.exists = "yes"
    /\ last.remote = "ok" /\ last.localSt = "err"
    /\ last.parent = "delete" /\ last.result = "True"

----------------------------------------------------------------------------
(* C3 *)

\* C3 as stated: with the setting on, the remote object present and both
\* hashes obtained, delete_file returns False exactly when the etag with its
\* wrapping quotation marks removed equals the local hex digest, and True
\* otherwise.
C3_SkipIffUnwrappedEtagEqualsDigest ==
    (flag /\ Decided /\ last.exists = "yes" /\ BothObtained)
        => /\ last.result \in {"True", "False"}
           /\ last.result = "False" <=> StripWrapping(last.etag) = last.localHash

----------------------------------------------------------------------------
(* C4 *)

\* C4: with the setting on, when storage.exists reports no object,
\* delete_file returns True having made no other call: no index lookup and
\* no open or read of the local file.
C4_AbsentShortCircuits ==
    (flag /\ Decided /\ last.exists = "no")
        => /\ last.result = "True"
           /\ last.calls = <<"exists">>
           /\ last.remote = "none" /\ last.localSt = "none" /\ ~last.opened

C4_Witness ==
    /\ flag /\ Decided /\ last.exists = "no" /\ last.result = "True"
    /\ last.file \notin objects

----------------------------------------------------------------------------
(* C5 *)

\* C5: with the setting off, delete_file makes the parent's delete_file call
\* and nothing else, and returns its answer; no hash is read or computed; and
\* __init__ leaves preload_metadata as it was and logs nothing.
C5_FlagOffIsParent ==
    ~flag
        => /\ preload = preload0
           /\ notices = {}
           /\ Decided =>
                /\ last.calls = <<"super.delete_file">>
                /\ last.result = ParentResult(last.parent)
                /\ last.remote = "none" /\ last.localSt = "none"
                /\ ~last.opened /\ last.exists = "none"
           /\ openStreams = {}

\* the parent publishes a file whose etag equals the digest of its bytes, and
\* preload_metadata stays False
C5_Witness ==
    /\ ~flag /\ Decided /\ last.result = "True" /\ last.parent = "delete"
    /\ preload0 = "false" /\ preload = "false"
    /\ \E k \in Keys : entries[k] = <<Quote, "a", "a", Quote>>

----------------------------------------------------------------------------
(* C6 *)

\* C6 as stated: with the setting on, no failure of a collaborator call
\* escapes delete_file, so no pass is aborted.
C6_NoFailureEscapes == flag => pc # "aborted"

\* C6 amended: with the setting on, a failure of the entry-path translation,
\* of the index lookup or of the local open or read never escapes
\* delete_file: it is caught and the parent's delete_file decides.  A failure
\* of storage.exists, and a failure of the parent's delete_file called in the
\* except clause, escape and abort the pass; nothing else does.
C6_OnlyExistsAndParentEscape ==
    (flag /\ Decided)
        => /\ last.failed \in {"path", "index", "etag", "open", "read"}
                => /\ last.parent # "none"
                   /\ last.result = ParentResult(last.parent)
           /\ last.result = "raise"
                <=> (last.exists = "raise" \/ last.parent = "raise")
           /\ pc = "aborted" <=> last.result = "raise"

\* a read of the local file raised in mid-stream and the pass goes on
C6_Witness ==
    /\ flag /\ Decided /\ last.failed = "read"
    /\ Cardinality({i \in DOMAIN last.calls : last.calls[i] = "read"}) = 2
    /\ last.result = "True" /\ pc = "ready"

----------------------------------------------------------------------------
(* C7 *)

\* C7 as stated: with the setting on, after any sequence of delete_file
\* calls the remote objects and the metadata index are what they were
\* before the first call.
C7_RemoteStoreUnchanged ==
    flag => objects = objects0 /\ entries = entries0

\* C7 amended: with the setting on, a delete_file call never changes the
\* metadata index, and it leaves the remote objects alone when the hashes
\* are equal, when they differ and when the remote object is absent; only on
\* a hash error can the remote object be deleted, by the parent's
\* delete_file that the except clause calls.
C7_OnlyParentFallbackDeletes ==
    [][flag =>
          /\ entries' = entries
          /\ objects' # objects
                => /\ HashError'
                   /\ last'.parent = "delete"
                   /\ objects' = objects \ {last'.file}]_vars

\* the hashes differ, delete_file returns True and the object is still there
C7_Witness ==
    /\ flag /\ Decided /\ BothObtained /\ last.remoteHash # last.localHash
    /\ last.result = "True" /\ last.file \in objects
    /\ objects = objects0 /\ entries = entries0

----------------------------------------------------------------------------
(* C8 *)

----------------------------------------------------------------------------
(* C9 *)

\* C9 as stated: every stream get_local_hash opens is closed when it exits,
\* so that after any sequence of delete_file calls none is left open.
C9_NoStreamLeftOpen == openStreams = {}

----------------------------------------------------------------------------
(* C10 *)

====
